---- MODULE Spec2Model ----
(***************************************************************************)
(* Runtime-reified generics of basedtyping: the instantiation gate and the *)
(* variance-aware subclass / instance checks of                            *)
(*   basedtyping/__init__.py           (ReifiedGeneric, issubform)         *)
(*   basedtyping/reified_generic.py    (the earlier ReifiedGeneric)        *)
(*                                                                         *)
(* A call's outcome is a string: "True" / "False" for a returned bool,     *)
(* "ok" for a returned object, or the name of the exception it raises.     *)
(***************************************************************************)
EXTENDS Integers, Sequences, FiniteSets, TLC

VARIABLES insts, last

vars == <<insts, last>>

(***************************************************************************)
(* Bounds                                                                  *)
(***************************************************************************)
\* at most this many objects are constructed in one behaviour
MaxInsts == 2

(***************************************************************************)
(* Type forms.  A class is named by a string; a union is the set of its    *)
(* member classes (int | str, str | int and typing.Union[int, str] compare *)
(* and hash equal in Python, and a union has at least two members); a      *)
(* TypeVar is an unbound type parameter.                                   *)
(***************************************************************************)
Cls(n) == [kind |-> "class", names |-> {n}]

Un(S) == [kind |-> "union", names |-> S]

TV(n) == [kind |-> "typevar", names |-> {n}]

\* the method resolution order of a class: the builtin classes used as type
\* arguments, and the templates declared below
ClassMro(c) ==
    CASE c = "object" -> {"object"}
      [] c = "int"    -> {"int", "object"}
      [] c = "str"    -> {"str", "object"}
      [] c = "bool"   -> {"bool", "int", "object"}
      [] c = "Sub"    -> {"Sub", "Reified", "ReifiedGeneric", "object"}
      [] c = "FooInv" -> {"FooInv", "Foo", "ReifiedGeneric", "object"}
      [] c = "Mixed"  -> {"Mixed", "Foo", "ReifiedGeneric", "object"}
      [] OTHER        -> {c, "ReifiedGeneric", "object"}

Classes == {"object", "int", "str", "bool"}

Forms ==
    {Cls(c) : c \in Classes}
        \cup {Un({"int", "str"}), Un({"int", "bool"})}
        \cup {TV("T")}

\* the forms the stateful specifications parameterize templates with
GateForms == {Cls("int"), Un({"int", "str"}), TV("T")}

Bool(b) == IF b THEN "True" ELSE "False"

\* builtin issubclass(form, forminfo): the first argument must be a class, the
\* second a class or a union of classes
issubclass(form, forminfo) ==
    IF form.kind # "class" \/ forminfo.kind = "typevar"
    THEN "TypeError"
    ELSE Bool(\E c \in form.names, b \in forminfo.names : b \in ClassMro(c))

\* issubform without the union branch: issubclass() applied to the form itself
issubform_NoUnionBranch(form, forminfo) == issubclass(form, forminfo)

\* issubform accepting a union as soon as one member is a subclass
issubform_AnyMember(form, forminfo) ==
    IF form.kind = "union"
    THEN LET rs == {issubclass(Cls(t), forminfo) : t \in form.names}
         IN  IF "TypeError" \in rs THEN "TypeError"
             ELSE IF "True" \in rs THEN "True" ELSE "False"
    ELSE issubclass(form, forminfo)

\* issubform(form, forminfo).  The loop over form.__args__ stops at the first
\* member that is not a subclass; issubclass raises only because of forminfo,
\* hence for every member or for none, so the member order does not matter.
issubform(form, forminfo) ==
    IF form.kind = "union"
    THEN LET rs == {issubclass(Cls(t), forminfo) : t \in form.names}
         IN  IF "TypeError" \in rs THEN "TypeError"
             ELSE IF "False" \in rs THEN "False" ELSE "True"
    ELSE issubclass(form, forminfo)

(***************************************************************************)
(* Generic templates: classes deriving from ReifiedGeneric, as the test    *)
(* suite declares them.                                                    *)
(*   class Reified(ReifiedGeneric[tuple[T, T2]])                           *)
(*   class Sub(Reified[int, T])                                            *)
(*   class Foo(ReifiedGeneric[T_co])                                       *)
(*   class Bar(ReifiedGeneric[T_cont])                                     *)
(*   class FooInv(Foo[T])                                                  *)
(*   class Mixed(Foo[T_co], ReifiedGeneric[tuple[T_co, T_cont]])           *)
(***************************************************************************)
Templates == {"Reified", "Sub", "Foo", "Bar", "FooInv", "Mixed"}

\* the templates the stateful specifications instantiate
GateTemplates == {"Reified", "Foo"}

GateTemplatesRG == {"Foo", "FooInv"}

\* a class that does not derive from ReifiedGeneric
PlainClass == "int"

\* _type_vars(): the __parameters__ of the origin, each a TypeVar's variance
TypeVars(t) ==
    CASE t = "Reified" -> <<"invariant", "invariant">>
      [] t = "Sub"     -> <<"invariant">>
      [] t = "Foo"     -> <<"covariant">>
      [] t = "Bar"     -> <<"contravariant">>
      [] t = "FooInv"  -> <<"invariant">>
      [] t = "Mixed"   -> <<"covariant", "contravariant">>
      [] OTHER         -> <<>>

\* argument tuples of length 1 and 2 over a set of forms
ArgLists(F) == {<<a>> : a \in F} \cup {<<a, b>> : a \in F, b \in F}

\* a _ReifiedGenericAlias: origin plus __args__
Alias(t, as) == [alias |-> TRUE, origin |-> t, args |-> as]

\* a class object that is not a _ReifiedGenericAlias
Bare(t) == [alias |-> FALSE, origin |-> t, args |-> <<>>]

NoDesc == [alias |-> FALSE, origin |-> "none", args |-> <<>>]

DescriptorsOver(T, F) ==
    UNION {{Alias(t, as) : as \in {x \in ArgLists(F) : Len(x) = Len(TypeVars(t))}}
              : t \in T}

Descriptors == DescriptorsOver(Templates, Forms)

GateDescriptors == DescriptorsOver(GateTemplates, GateForms)

GateDescriptorsRG == DescriptorsOver(GateTemplatesRG, GateForms)

\* __parameters__ of an alias: the TypeVars among its arguments
Parameters(d) == {i \in DOMAIN d.args : d.args[i].kind = "typevar"}

FullyReified(d) == d.alias /\ Parameters(d) = {}

(***************************************************************************)
(* basedtyping/__init__.py: _ReifiedGenericAlias                           *)
(***************************************************************************)
\* _check_generics_reified that never raises
check_generics_reified_Never(self) == "ok"

\* _check_generics_reified(): raises when the alias still has TypeVars
check_generics_reified(self) ==
    IF Parameters(self) # {} THEN "NotReifiedParameterError" ELSE "ok"

\* the loop body accepting an invariant position on mutual subform
PositionCheck_Mutual(parameter, self_arg, subclass_arg) ==
    CASE parameter = "contravariant" -> issubform(self_arg, subclass_arg)
      [] parameter = "covariant"     -> issubform(subclass_arg, self_arg)
      [] OTHER ->
            LET a == issubform(self_arg, subclass_arg)
                b == issubform(subclass_arg, self_arg)
            IN  IF a = "True" THEN b ELSE a

\* one iteration of the loop of _type_var_check: "True" when the position
\* passes (the loop goes on), "False" when the method returns False, or the
\* exception issubform raises
PositionCheck(parameter, self_arg, subclass_arg) ==
    CASE parameter = "contravariant" -> issubform(self_arg, subclass_arg)
      [] parameter = "covariant"     -> issubform(subclass_arg, self_arg)
      [] OTHER                       -> Bool(subclass_arg = self_arg)

\* for ... in zip(ps, sa, ca, strict=True), from position i on.  zip is lazy:
\* it raises ValueError only when it reaches the end of one argument while
\* another still has items, after the earlier positions ran the loop body.
RECURSIVE ZipLoop(_, _, _, _)
ZipLoop(ps, sa, ca, i) ==
    IF i > Len(ps)
    THEN IF i <= Len(sa) \/ i <= Len(ca) THEN "ValueError" ELSE "True"
    ELSE IF i > Len(sa) \/ i > Len(ca)
         THEN "ValueError"
         ELSE LET r == PositionCheck(ps[i], sa[i], ca[i])
              IN  IF r = "True" THEN ZipLoop(ps, sa, ca, i + 1) ELSE r

\* _type_var_check(self, args)
type_var_check(self, args) ==
    IF check_generics_reified(self) # "ok"
    THEN check_generics_reified(self)
    ELSE ZipLoop(TypeVars(self.origin), self.args, args, 1)

\* __subclasscheck__ without the check of the candidate's TypeVars
subclasscheck_NoCandidateCheck(self, subclass) ==
    IF ~subclass.alias \/ issubform(Cls(subclass.origin), Cls(self.origin)) # "True"
    THEN "False"
    ELSE type_var_check(self, subclass.args)

\* __subclasscheck__(self, subclass): issubclass(subclass, self)
subclasscheck(self, subclass) ==
    IF ~subclass.alias \/ issubform(Cls(subclass.origin), Cls(self.origin)) # "True"
    THEN "False"
    ELSE IF check_generics_reified(subclass) # "ok"
         THEN check_generics_reified(subclass)
         ELSE type_var_check(self, subclass.args)

\* an object: its runtime class and its __orig_class__ (NoDesc when unset)
Object(c, d) == [cls |-> c, orig |-> d]

\* __instancecheck__(self, instance): isinstance(instance, self)
instancecheck(self, instance) ==
    IF self.origin \notin ClassMro(instance.cls)
          \/ "ReifiedGeneric" \notin ClassMro(instance.cls)
    THEN "False"
    ELSE IF instance.orig = NoDesc
         THEN "AttributeError"
         ELSE type_var_check(self, instance.orig.args)

\* _ReifiedGenericMetaclass._actual_call: type.__call__, the constructor runs
\* and the new object has no __orig_class__ yet
actual_call(cls, objs) == Append(objs, Object(cls, NoDesc))

\* _ReifiedGenericAlias.__call__ attaching nothing to the new object
alias_call_NoAttach(self, objs) ==
    IF check_generics_reified(self) # "ok"
    THEN [res |-> check_generics_reified(self), insts |-> objs]
    ELSE [res |-> "ok", insts |-> actual_call(self.origin, objs)]

\* _ReifiedGenericAlias.__call__: the gate.  _inst is True for every alias
\* __class_getitem__ builds, so the first raise is never taken.
alias_call(self, objs) ==
    IF check_generics_reified(self) # "ok"
    THEN [res |-> check_generics_reified(self), insts |-> objs]
    ELSE LET made == actual_call(self.origin, objs)
         IN  [res |-> "ok",
              insts |-> [made EXCEPT ![Len(made)].orig = self]]

\* a metaclass __call__ that falls through to the constructor
metaclass_call_Constructs(cls, objs) ==
    [res |-> "ok", insts |-> actual_call(cls, objs)]

\* _ReifiedGenericMetaclass.__call__: instantiating the bare template
metaclass_call(cls, objs) ==
    [res |-> "NoParametersError", insts |-> objs]

\* ReifiedGeneric.__class_getitem__: Generic.__class_getitem__ rejects a wrong
\* number of arguments, then the alias is rebuilt as a _ReifiedGenericAlias
class_getitem(cls, item) ==
    IF Len(item) # Len(TypeVars(cls))
    THEN [res |-> "TypeError", d |-> NoDesc]
    ELSE [res |-> "ok", d |-> Alias(cls, item)]

(***************************************************************************)
(* basedtyping/reified_generic.py: the earlier ReifiedGeneric              *)
(***************************************************************************)
\* basedtyping.runtime_checks.is_subclass: the subform predicate, a union on
\* the left being a subform when every member is a subclass
is_subclass(form, forminfo) ==
    IF form.kind = "union"
    THEN LET rs == {issubclass(Cls(t), forminfo) : t \in form.names}
         IN  IF "TypeError" \in rs THEN "TypeError"
             ELSE IF "False" \in rs THEN "False" ELSE "True"
    ELSE issubclass(form, forminfo)

\* one iteration of the loop of _type_var_check: three ifs in a row, the
\* identity test applying to every position.  Generic.__class_getitem__ is
\* cached on the hash of its arguments, so equal forms are one object and
\* `is` on the arguments of two aliases is equality of forms.
PositionCheckRG(parameter, self_arg, subclass_arg) ==
    LET co == IF parameter = "covariant"
              THEN is_subclass(subclass_arg, self_arg) ELSE "True"
        contra == IF parameter = "contravariant"
                  THEN is_subclass(self_arg, subclass_arg) ELSE "True"
    IN  IF co # "True" THEN co
        ELSE IF contra # "True" THEN contra
        ELSE Bool(self_arg = subclass_arg)

RECURSIVE ZipLoopRG(_, _, _, _)
ZipLoopRG(ps, sa, ca, i) ==
    IF i > Len(ps)
    THEN IF i <= Len(sa) \/ i <= Len(ca) THEN "ValueError" ELSE "True"
    ELSE IF i > Len(sa) \/ i > Len(ca)
         THEN "ValueError"
         ELSE LET r == PositionCheckRG(ps[i], sa[i], ca[i])
              IN  IF r = "True" THEN ZipLoopRG(ps, sa, ca, i + 1) ELSE r

\* _type_var_check(self, args): no check of the TypeVars
type_var_checkRG(self, args) ==
    ZipLoopRG(TypeVars(self.origin), self.args, args, 1)

\* __subclasscheck__(self, subclass)
subclasscheckRG(self, subclass) ==
    IF ~subclass.alias
          \/ is_subclass(Cls(subclass.origin), Cls(self.origin)) # "True"
    THEN "False"
    ELSE type_var_checkRG(self, subclass.args)

\* __instancecheck__(self, instance)
instancecheckRG(self, instance) ==
    IF self.origin \notin ClassMro(instance.cls)
          \/ "ReifiedGeneric" \notin ClassMro(instance.cls)
    THEN "False"
    ELSE IF instance.orig = NoDesc
         THEN "AttributeError"
         ELSE type_var_checkRG(self, instance.orig.args)

\* the metaclass defines no __call__: the bare template constructs an object,
\* and ReifiedGeneric.__init__ only annotates __orig_class__
metaclass_callRG(cls, objs) ==
    [res |-> "ok", insts |-> Append(objs, Object(cls, NoDesc))]

\* __call__ inherited from _GenericAlias: construct, then set __orig_class__
alias_callRG(self, objs) ==
    [res |-> "ok", insts |-> Append(objs, Object(self.origin, self))]

(***************************************************************************)
(* State: the objects constructed so far and the last call with its        *)
(* outcome.                                                                *)
(***************************************************************************)
NoForm == Cls("none")

NoObject == Object("none", NoDesc)

\* an instance of a class that is not a ReifiedGeneric
PlainObject == Object(PlainClass, NoDesc)

\* constructor argument lists
CtorArgs == {<<>>, <<1>>}

Call(op, d, ref, obj, form, forminfo, args, res) ==
    [op |-> op, d |-> d, ref |-> ref, obj |-> obj, form |-> form,
     forminfo |-> forminfo, args |-> args, res |-> res]

NoCall == Call("none", NoDesc, NoDesc, NoObject, NoForm, NoForm, <<>>, "none")

Init ==
    /\ insts = <<>>
    /\ last = NoCall

\* Template[args]
Parameterize(t, item) ==
    LET r == class_getitem(t, item)
    IN  /\ last' = Call("parameterize", r.d, Bare(t), NoObject, NoForm, NoForm,
                        item, r.res)
        /\ UNCHANGED insts

\* Template(*ctor)
InstantiateBare(t, ctor) ==
    LET r == metaclass_call(t, insts)
    IN  /\ Len(r.insts) <= MaxInsts
        /\ insts' = r.insts
        /\ last' = Call("instantiate_bare", Bare(t), NoDesc, NoObject, NoForm,
                        NoForm, ctor, r.res)

\* Template[args](*ctor)
Instantiate(d, ctor) ==
    LET r == alias_call(d, insts)
    IN  /\ Len(r.insts) <= MaxInsts
        /\ insts' = r.insts
        /\ last' = Call("instantiate", d, NoDesc, NoObject, NoForm, NoForm,
                        ctor, r.res)

\* issubclass(c, r)
IsSubtype(c, r) ==
    /\ last' = Call("is_subtype", c, r, NoObject, NoForm, NoForm, <<>>,
                    subclasscheck(r, c))
    /\ UNCHANGED insts

\* isinstance(o, r)
IsInstance(o, r) ==
    /\ last' = Call("is_instance", NoDesc, r, o, NoForm, NoForm, <<>>,
                    instancecheck(r, o))
    /\ UNCHANGED insts

\* issubform(f, g)
IsSubform(f, g) ==
    /\ last' = Call("is_subform", NoDesc, NoDesc, NoObject, f, g, <<>>,
                    issubform(f, g))
    /\ UNCHANGED insts

Next ==
    \/ \E t \in GateTemplates, item \in ArgLists(GateForms) : Parameterize(t, item)
    \/ \E t \in GateTemplates, ctor \in CtorArgs : InstantiateBare(t, ctor)
    \/ \E d \in GateDescriptors, ctor \in CtorArgs : Instantiate(d, ctor)
    \/ \E c \in GateDescriptors, r \in GateDescriptors : IsSubtype(c, r)
    \/ \E r \in GateDescriptors : IsSubtype(Bare(PlainClass), r)
    \/ \E i \in DOMAIN insts, r \in GateDescriptors : IsInstance(insts[i], r)
    \/ \E r \in GateDescriptors : IsInstance(PlainObject, r)
    \/ \E f \in GateForms, g \in GateForms : IsSubform(f, g)

Spec == Init /\ [][Next]_vars

(***************************************************************************)
(* The same calls against basedtyping/reified_generic.py                   *)
(***************************************************************************)
\* ReifiedGeneric.__class_getitem__, the same code as in __init__.py
ParameterizeRG(t, item) ==
    LET r == class_getitem(t, item)
    IN  /\ last' = Call("parameterize", r.d, Bare(t), NoObject, NoForm, NoForm,
                        item, r.res)
        /\ UNCHANGED insts

InstantiateBareRG(t, ctor) ==
    LET r == metaclass_callRG(t, insts)
    IN  /\ Len(r.insts) <= MaxInsts
        /\ insts' = r.insts
        /\ last' = Call("instantiate_bare", Bare(t), NoDesc, NoObject, NoForm,
                        NoForm, ctor, r.res)

InstantiateRG(d, ctor) ==
    LET r == alias_callRG(d, insts)
    IN  /\ Len(r.insts) <= MaxInsts
        /\ insts' = r.insts
        /\ last' = Call("instantiate", d, NoDesc, NoObject, NoForm, NoForm,
                        ctor, r.res)

IsSubtypeRG(c, r) ==
    /\ last' = Call("is_subtype", c, r, NoObject, NoForm, NoForm, <<>>,
                    subclasscheckRG(r, c))
    /\ UNCHANGED insts

IsInstanceRG(o, r) ==
    /\ last' = Call("is_instance", NoDesc, r, o, NoForm, NoForm, <<>>,
                    instancecheckRG(r, o))
    /\ UNCHANGED insts

NextRG ==
    \/ \E t \in GateTemplatesRG, item \in ArgLists(GateForms) : ParameterizeRG(t, item)
    \/ \E t \in GateTemplatesRG, ctor \in CtorArgs : InstantiateBareRG(t, ctor)
    \/ \E d \in GateDescriptorsRG, ctor \in CtorArgs : InstantiateRG(d, ctor)
    \/ \E c \in GateDescriptorsRG, r \in GateDescriptorsRG : IsSubtypeRG(c, r)
    \/ \E r \in GateDescriptorsRG : IsSubtypeRG(Bare(PlainClass), r)
    \/ \E i \in DOMAIN insts, r \in GateDescriptorsRG : IsInstanceRG(insts[i], r)
    \/ \E r \in GateDescriptorsRG : IsInstanceRG(PlainObject, r)

SpecRG == Init /\ [][NextRG]_vars

(***************************************************************************)
(* The predicates of basedtyping/__init__.py as functions of their         *)
(* arguments: one call, drawn from every pair of descriptors (or forms),   *)
(* and the objects the gate can have made.                                 *)
(***************************************************************************)
GateObjects == {Object(d.origin, d) : d \in {x \in Descriptors : FullyReified(x)}}

Candidates == Descriptors \cup {Bare(PlainClass)} \cup {Bare(t) : t \in Templates}

InitCheck ==
    /\ insts = <<>>
    /\ \/ \E c \in Candidates, r \in Descriptors :
            last = Call("is_subtype", c, r, NoObject, NoForm, NoForm, <<>>,
                        "pending")
       \/ \E o \in GateObjects, r \in Descriptors :
            last = Call("is_instance", NoDesc, r, o, NoForm, NoForm, <<>>,
                        "pending")
       \/ \E r \in Descriptors :
            last = Call("is_instance", NoDesc, r, PlainObject, NoForm, NoForm,
                        <<>>, "pending")
       \/ \E f \in Forms, g \in Forms :
            last = Call("is_subform", NoDesc, NoDesc, NoObject, f, g, <<>>,
                        "pending")

RunIsSubtype ==
    /\ last.op = "is_subtype" /\ last.res = "pending"
    /\ last' = [last EXCEPT !.res = subclasscheck(last.ref, last.d)]
    /\ UNCHANGED insts

RunIsInstance ==
    /\ last.op = "is_instance" /\ last.res = "pending"
    /\ last' = [last EXCEPT !.res = instancecheck(last.ref, last.obj)]
    /\ UNCHANGED insts

RunIsSubform ==
    /\ last.op = "is_subform" /\ last.res = "pending"
    /\ last' = [last EXCEPT !.res = issubform(last.form, last.forminfo)]
    /\ UNCHANGED insts

NextCheck == RunIsSubtype \/ RunIsInstance \/ RunIsSubform

SpecCheck == InitCheck /\ [][NextCheck]_vars

(***************************************************************************)
(* Properties                                                              *)
(***************************************************************************)
Done(op) == last.op = op /\ last.res # "pending"

\* the candidate's origin is the reference's origin or a subclass of it
OriginSubclass(c, r) == r.origin \in ClassMro(c.origin)

\* a concrete form (class or union of classes) is a subform of another: every
\* member class of the one is a subclass of some member class of the other
SubformOf(f, g) == \A m \in f.names : \E n \in g.names : n \in ClassMro(m)

Raised == {"TypeError", "ValueError", "AttributeError",
           "NotReifiedParameterError", "NoParametersError"}

\* C1: instantiating a bare template raises NoParametersError whatever the
\* template and the constructor arguments, and constructs no object
BareInstantiationFails ==
    [][last'.op = "instantiate_bare"
          => last'.res = "NoParametersError" /\ insts' = insts]_vars

BareInstantiationFailsWitness ==
    /\ last.op = "instantiate_bare"
    /\ last.res = "NoParametersError"
    /\ last.args # <<>>
    /\ insts # <<>>

\* C2: parameterizing with an unbound TypeVar among the arguments yields a
\* partially reified alias; instantiating through such an alias raises
\* NotReifiedParameterError and constructs nothing; an instantiation that
\* succeeds went through a fully reified alias
PartialNeverInstantiates ==
    /\ [](last.op = "parameterize"
            /\ Len(last.args) = Len(TypeVars(last.ref.origin))
            /\ (\E i \in DOMAIN last.args : last.args[i].kind = "typevar")
          => /\ last.res = "ok"
             /\ last.d = Alias(last.ref.origin, last.args)
             /\ ~FullyReified(last.d))
    /\ [](last.op = "instantiate" /\ last.res = "ok" => FullyReified(last.d))
    /\ [][last'.op = "instantiate" /\ ~FullyReified(last'.d)
            => last'.res = "NotReifiedParameterError" /\ insts' = insts]_vars

PartialNeverInstantiatesWitness ==
    /\ last.op = "instantiate"
    /\ ~FullyReified(last.d)
    /\ Len(last.d.args) = 2
    /\ last.res = "NotReifiedParameterError"

\* C3: every object carries the alias it was instantiated through, that alias
\* is fully reified, and no later call changes an existing object
BackReferenceStable ==
    /\ [](\A i \in DOMAIN insts :
            /\ FullyReified(insts[i].orig)
            /\ insts[i].orig.origin = insts[i].cls)
    /\ [][/\ \A i \in DOMAIN insts : i \in DOMAIN insts' /\ insts'[i] = insts[i]
          /\ (last'.op = "instantiate" /\ last'.res = "ok"
                => /\ Len(insts') = Len(insts) + 1
                   /\ insts'[Len(insts')].orig = last'.d)]_vars

BackReferenceStableWitness ==
    /\ Len(insts) >= 2
    /\ insts[1].orig # insts[2].orig
    /\ last.op = "is_instance"
    /\ last.obj = insts[1]
    /\ last.res = "False"

\* C4 as stated: an unbound TypeVar in either alias makes is_subtype raise
\* whatever the origins are, and an unbound TypeVar in the reference makes
\* is_instance raise whatever the object is
UnboundAlwaysRaises ==
    /\ (Done("is_subtype") /\ last.d.alias
            /\ (Parameters(last.d) # {} \/ Parameters(last.ref) # {})
          => last.res = "NotReifiedParameterError")
    /\ (Done("is_instance") /\ Parameters(last.ref) # {}
          => last.res = "NotReifiedParameterError")

\* C4 amended: the origin comparison comes first.  With an unbound TypeVar in
\* either alias is_subtype raises when the candidate's origin is a subclass of
\* the reference's origin, and returns False otherwise; with an unbound
\* TypeVar in the reference is_instance raises when the object is an instance
\* of the reference's origin, and returns False otherwise.
UnboundRaisesAfterOriginCheck ==
    /\ (Done("is_subtype") /\ last.d.alias
            /\ (Parameters(last.d) # {} \/ Parameters(last.ref) # {})
          => last.res = IF OriginSubclass(last.d, last.ref)
                        THEN "NotReifiedParameterError" ELSE "False")
    /\ (Done("is_instance") /\ Parameters(last.ref) # {}
          => last.res = IF last.ref.origin \in ClassMro(last.obj.cls)
                        THEN "NotReifiedParameterError" ELSE "False")

UnboundRaisesAfterOriginCheckWitness ==
    /\ Done("is_subtype")
    /\ Parameters(last.d) # {}
    /\ Parameters(last.ref) = {}
    /\ last.d.origin # last.ref.origin
    /\ last.res = "NotReifiedParameterError"

\* the check the reference's template selects for position i
PositionPasses(c, r, i) ==
    LET variance == TypeVars(r.origin)[i]
    IN  CASE variance = "covariant"     -> SubformOf(c.args[i], r.args[i])
          [] variance = "contravariant" -> SubformOf(r.args[i], c.args[i])
          [] OTHER                      -> c.args[i] = r.args[i]

\* C5: for fully reified aliases with the same number of arguments, is_subtype
\* is true exactly when the candidate's origin is a subclass of the
\* reference's and every position passes the check of its variance
VarianceDecides ==
    Done("is_subtype") /\ FullyReified(last.d) /\ FullyReified(last.ref)
        /\ Len(last.d.args) = Len(last.ref.args)
      => last.res = Bool(/\ OriginSubclass(last.d, last.ref)
                         /\ \A i \in DOMAIN last.ref.args :
                                PositionPasses(last.d, last.ref, i))

VarianceDecidesWitness ==
    /\ Done("is_subtype") /\ FullyReified(last.d) /\ FullyReified(last.ref)
    /\ last.d.origin = "FooInv" /\ last.ref.origin = "FooInv"
    /\ last.d.args[1] # last.ref.args[1]
    /\ SubformOf(last.d.args[1], last.ref.args[1])
    /\ SubformOf(last.ref.args[1], last.d.args[1])
    /\ last.res = "False"

\* C7: issubform of a union is true exactly when every member is a subclass of
\* the reference; of anything else it is issubclass
SubformLaw ==
    /\ insts = <<>>
    /\ (Done("is_subform") /\ last.form.kind = "union"
            /\ last.forminfo.kind # "typevar"
          => last.res = Bool(\A m \in last.form.names :
                                issubclass(Cls(m), last.forminfo) = "True"))
    /\ (Done("is_subform") /\ last.form.kind # "union"
          => last.res = issubclass(last.form, last.forminfo))
    /\ (Done("is_subform") /\ last.form = Cls("int")
            /\ last.forminfo = Un({"int", "str"}) => last.res = "True")
    /\ (Done("is_subform") /\ last.form = Un({"int", "str"})
          => last.res = CASE last.forminfo = Cls("int") -> "False"
                          [] last.forminfo = Cls("object") -> "True"
                          [] last.forminfo = Un({"int", "str"}) -> "True"
                          [] OTHER -> last.res)

SubformLawWitness ==
    /\ Done("is_subform")
    /\ last.form = Un({"int", "str"})
    /\ last.forminfo = Cls("int")
    /\ last.res = "False"

\* C8: is_subtype of a fully reified alias against itself is true
Reflexive ==
    Done("is_subtype") /\ FullyReified(last.d) /\ last.d = last.ref
      => last.res = "True"

ReflexiveWitness ==
    /\ Done("is_subtype") /\ FullyReified(last.d) /\ last.d = last.ref
    /\ last.d.origin = "Mixed"
    /\ last.d.args[1].kind = "union"
    /\ last.d.args[2].kind = "union"
    /\ last.res = "True"

\* C10: when the positions are compared and the candidate and the reference
\* have different numbers of arguments, the comparison raises; it returns
\* neither True nor False
CountMismatchRaises ==
    /\ (Done("is_subtype") /\ FullyReified(last.d) /\ FullyReified(last.ref)
            /\ OriginSubclass(last.d, last.ref)
            /\ Len(last.d.args) # Len(last.ref.args)
          => last.res \in Raised)
    /\ (Done("is_instance") /\ FullyReified(last.obj.orig)
            /\ FullyReified(last.ref)
            /\ last.ref.origin \in ClassMro(last.obj.cls)
            /\ Len(last.obj.orig.args) # Len(last.ref.args)
          => last.res \in Raised)

\* C6: with a covariant parameter, isinstance through reified_generic.py is
\* true exactly when the object's argument is a subform of the reference's:
\* true for Foo[int]() against Foo[int | str], false the other way round
CovariantAccepts ==
    last.op = "is_instance" /\ last.obj.cls = "Foo" /\ last.ref.origin = "Foo"
        /\ FullyReified(last.obj.orig) /\ FullyReified(last.ref)
      => last.res = Bool(SubformOf(last.obj.orig.args[1], last.ref.args[1]))

\* C9: an object without __orig_class__ is not an instance of any fully
\* reified alias: isinstance returns False, also for an object whose class is
\* the alias's origin or a subclass of it
NoBackReferenceIsFalse ==
    last.op = "is_instance" /\ last.obj.orig = NoDesc /\ FullyReified(last.ref)
      => last.res = "False"
====
